---- MODULE Spec2Model ----
(***************************************************************************)
(* Model of html_to_epub_converter.py (class HTMLtoEPUBConverter).         *)
(*                                                                         *)
(* Strings the code inspects character by character (directory names) are  *)
(* sequences of one-character strings.  Inline style declarations are      *)
(* sequences of lexical tokens.  Four specifications share the variables:  *)
(*   Spec        create_epub from start to the hand-over to the packager   *)
(*   SpecDate    extract_date_from_dirname on a bounded set of names       *)
(*   SpecFooter  _remove_footer_elements on bounded paragraph lists        *)
(*   SpecStyle   _preserve_formatting on bounded style declarations        *)
(***************************************************************************)
EXTENDS Integers, Sequences, FiniteSets, TLC

VARIABLES
  pc,                      \* position in the operation being modelled
  listing,                 \* os.listdir(source_dir) with what the filesystem holds
  all_dirs,                \* process_directory's result
  i,                       \* loop index of create_epub's enumerate
  spine,                   \* self.spine
  toc,                     \* self.toc
  chapters,                \* self.chapters
  items,                   \* self.book.items, in add_item order
  book_spine,              \* self.book.spine
  book_toc,                \* self.book.toc
  image_files_to_process,  \* self.image_files_to_process
  dirname,                 \* argument of extract_date_from_dirname
  date,                    \* its result
  content_div,             \* paragraphs of the container given to _remove_footer_elements
  paragraphs,              \* its local list content_div.find_all('p')
  footer_elements,         \* indices (in paragraphs) of the elements it decomposed
  html_content,            \* elements given to _preserve_formatting
  html                     \* elements it returns

vars ==
  <<pc, listing, all_dirs, i, spine, toc, chapters, items, book_spine, book_toc,
    image_files_to_process, dirname, date, content_div, paragraphs,
    footer_elements, html_content, html>>

walkVars ==
  <<listing, all_dirs, i, spine, toc, chapters, items, book_spine, book_toc,
    image_files_to_process>>

dateVars ==
  <<dirname, date>>

footerVars ==
  <<content_div, paragraphs, footer_elements>>

styleVars ==
  <<html_content, html>>

(***************************************************************************)
(* Bounds                                                                  *)
(***************************************************************************)
MaxNameTokens ==
  3

MaxParas ==
  6

MaxStyleChunks ==
  4

MaxDirs ==
  2

Min(a, b) ==
  IF a <= b THEN a ELSE b

RECURSIVE Flatten(_)
Flatten(ss) ==
  IF ss = <<>> THEN <<>> ELSE Head(ss) \o Flatten(Tail(ss))

SeqsUpTo(S, n) ==
  UNION {[1..k -> S] : k \in 0..n}

(***************************************************************************)
(* extract_date_from_dirname                                               *)
(***************************************************************************)
Digits ==
  {"0", "1", "2", "3", "4", "5", "6", "7", "8", "9"}

DigitVal(c) ==
  CASE c = "0" -> 0 [] c = "1" -> 1 [] c = "2" -> 2 [] c = "3" -> 3 [] c = "4" -> 4
    [] c = "5" -> 5 [] c = "6" -> 6 [] c = "7" -> 7 [] c = "8" -> 8 [] c = "9" -> 9

\* the pattern \d{4}-\d{2}-\d{2} matches the ten characters starting at k
DatePatternAt(s, k) ==
  /\ k >= 1
  /\ k + 9 <= Len(s)
  /\ \A j \in {0, 1, 2, 3, 5, 6, 8, 9} : s[k + j] \in Digits
  /\ s[k + 4] = "-"
  /\ s[k + 7] = "-"

\* re.search: start of the leftmost match, 0 when there is none
DateSearch(s) ==
  IF \E k \in 1..Len(s) : DatePatternAt(s, k)
  THEN CHOOSE k \in 1..Len(s) :
         /\ DatePatternAt(s, k)
         /\ \A j \in 1..(k - 1) : ~DatePatternAt(s, j)
  ELSE 0

Num2(s, k) ==
  DigitVal(s[k]) * 10 + DigitVal(s[k + 1])

Num4(s, k) ==
  Num2(s, k) * 100 + Num2(s, k + 2)

IsLeap(y) ==
  (y % 4 = 0) /\ ((y % 100 # 0) \/ (y % 400 = 0))

DaysInMonth(y, m) ==
  CASE m \in {1, 3, 5, 7, 8, 10, 12} -> 31
    [] m \in {4, 6, 9, 11} -> 30
    [] OTHER -> IF IsLeap(y) THEN 29 ELSE 28

\* datetime.strptime(text, '%Y-%m-%d') succeeds on the ten characters at k
StrptimeOk(s, k) ==
  LET y == Num4(s, k)
      m == Num2(s, k + 5)
      d == Num2(s, k + 8)
  IN  /\ y >= 1
      /\ m >= 1
      /\ m <= 12
      /\ d >= 1
      /\ d <= DaysInMonth(y, m)

Strptime(s, k) ==
  <<Num4(s, k), Num2(s, k + 5), Num2(s, k + 8)>>

DefaultDate ==
  <<2000, 1, 1>>

RECURSIVE ValidDatesFrom(_, _)
ValidDatesFrom(s, k) ==
  IF k > Len(s) THEN <<>>
  ELSE (IF DatePatternAt(s, k) /\ StrptimeOk(s, k) THEN <<Strptime(s, k)>> ELSE <<>>)
       \o ValidDatesFrom(s, k + 1)

ValidDatesInOrder(s) ==
  ValidDatesFrom(s, 1)

\* variant: keeps searching past a match that does not parse
extract_date_first_valid(s) ==
  IF ValidDatesInOrder(s) # <<>> THEN Head(ValidDatesInOrder(s)) ELSE DefaultDate

extract_date_from_dirname(s) ==
  LET k == DateSearch(s)
  IN  IF k # 0
      THEN IF StrptimeOk(s, k) THEN Strptime(s, k) ELSE DefaultDate
      ELSE DefaultDate

\* datetime comparison
DateLess(a, b) ==
  \/ a[1] < b[1]
  \/ a[1] = b[1] /\ a[2] < b[2]
  \/ a[1] = b[1] /\ a[2] = b[2] /\ a[3] < b[3]

(***************************************************************************)
(* Directory names                                                         *)
(***************************************************************************)
T_2024_03_01 ==
  <<"2", "0", "2", "4", "-", "0", "3", "-", "0", "1">>

T_2024_13_01 ==
  <<"2", "0", "2", "4", "-", "1", "3", "-", "0", "1">>

T_1999_12_31 ==
  <<"1", "9", "9", "9", "-", "1", "2", "-", "3", "1">>

T_2023_02_29 ==
  <<"2", "0", "2", "3", "-", "0", "2", "-", "2", "9">>

NameTokens ==
  {T_2024_03_01, T_2024_13_01, T_1999_12_31, T_2023_02_29, <<"2">>, <<"-">>, <<"a">>}

DirNames ==
  {Flatten(ts) : ts \in SeqsUpTo(NameTokens, MaxNameTokens)}

InitDate ==
  /\ pc = "date_call"
  /\ dirname \in DirNames
  /\ date = <<>>
  /\ listing = <<>>
  /\ all_dirs = <<>>
  /\ i = 0
  /\ spine = <<>>
  /\ toc = <<>>
  /\ chapters = <<>>
  /\ items = <<>>
  /\ book_spine = <<>>
  /\ book_toc = <<>>
  /\ image_files_to_process = <<>>
  /\ content_div = <<>>
  /\ paragraphs = <<>>
  /\ footer_elements = {}
  /\ html_content = <<>>
  /\ html = <<>>

ExtractDate ==
  /\ pc = "date_call"
  /\ date' = extract_date_from_dirname(dirname)
  /\ pc' = "date_done"
  /\ UNCHANGED <<dirname, walkVars, footerVars, styleVars>>

NextDate ==
  ExtractDate

SpecDate ==
  InitDate /\ [][NextDate]_vars

\* the dates spelled by the substrings of s that match the pattern and parse
ValidDatesIn(s) ==
  {Strptime(s, k) : k \in {j \in 1..Len(s) : DatePatternAt(s, j) /\ StrptimeOk(s, j)}}

\* C2 (as stated): a name containing a valid YYYY-MM-DD substring yields that
\* date, every other name yields 2000-01-01.
C2_AnyValidSubstring ==
  pc = "date_done" =>
    IF ValidDatesIn(dirname) # {}
    THEN date \in ValidDatesIn(dirname)
    ELSE date = DefaultDate

\* C2 (amended): the leftmost substring of the form dddd-dd-dd decides: when it
\* is a valid calendar date that date is returned, and when it is not, or no
\* substring has the form, 2000-01-01 is returned.
C2_LeftmostMatchDecides ==
  pc = "date_done" =>
    LET k == DateSearch(dirname)
    IN  IF k # 0 /\ StrptimeOk(dirname, k)
        THEN date = Strptime(dirname, k)
        ELSE date = DefaultDate

\* a name whose leftmost match is not a date, followed by a real date
C2_Witness ==
  /\ pc = "date_done"
  /\ DateSearch(dirname) # 0
  /\ ~StrptimeOk(dirname, DateSearch(dirname))
  /\ ValidDatesIn(dirname) # {}
  /\ date = DefaultDate

(***************************************************************************)
(* _remove_footer_elements                                                 *)
(*                                                                         *)
(* A paragraph is what the heuristics read of it:                          *)
(*   email   one of email_patterns matches str(p)                          *)
(*   author  one of author_patterns occurs in p.get_text().strip()         *)
(*   imgs    src of the img elements inside p, in document order           *)
(*   fingerprint  str(p) holds 'color: rgb(34, 34, 34)' or 'Helvetica Neue'*)
(*   len     len(p_text.strip())                                           *)
(***************************************************************************)
Para(e, a, im, fp, n) ==
  [tag |-> "p", has_style |-> FALSE, style |-> <<>>,
   email |-> e, author |-> a, imgs |-> im, fingerprint |-> fp, len |-> n]

is_footer(p) ==
  IF p.email THEN TRUE
  ELSE IF p.author THEN TRUE
  ELSE IF p.imgs # <<>> /\ p.len < 3 THEN TRUE
  ELSE IF p.fingerprint THEN p.len < 30
  ELSE FALSE

\* the loop over range(min(5, len(paragraphs))): k is the loop variable, the
\* result the indices appended to footer_elements from iteration k on
\* variant: the loop goes on after a paragraph that is no footer
RECURSIVE FooterLoopNoBreak(_, _)
FooterLoopNoBreak(ps, k) ==
  IF k >= Min(5, Len(ps)) THEN {}
  ELSE (IF is_footer(ps[Len(ps) - k]) THEN {Len(ps) - k} ELSE {})
       \cup FooterLoopNoBreak(ps, k + 1)

RECURSIVE FooterLoop(_, _)
FooterLoop(ps, k) ==
  IF k >= Min(5, Len(ps)) THEN {}
  ELSE IF is_footer(ps[Len(ps) - k])
       THEN {Len(ps) - k} \cup FooterLoop(ps, k + 1)
       ELSE {}

FooterElements(ps) ==
  IF Len(ps) < 3 THEN {} ELSE FooterLoop(ps, 0)

\* element.decompose() for every index in R
RECURSIVE Decompose(_, _)
Decompose(ps, R) ==
  IF ps = <<>> THEN <<>>
  ELSE LET n == Len(ps)
           front == Decompose(SubSeq(ps, 1, n - 1), R)
       IN  IF n \in R THEN front ELSE Append(front, ps[n])

_remove_footer_elements(ps) ==
  Decompose(ps, FooterElements(ps))

QrSrc ==
  [kind |-> "asset", sub |-> "", stem |-> "qr", ext |-> "jpg"]

FooterParas ==
  { Para(FALSE, FALSE, <<>>, FALSE, 40),
    Para(TRUE, FALSE, <<>>, FALSE, 12),
    Para(FALSE, TRUE, <<>>, FALSE, 40),
    Para(FALSE, FALSE, <<QrSrc>>, FALSE, 0),
    Para(FALSE, FALSE, <<QrSrc>>, FALSE, 3),
    Para(FALSE, FALSE, <<>>, TRUE, 29),
    Para(FALSE, FALSE, <<>>, TRUE, 30) }

InitFooter ==
  /\ pc = "footer_call"
  /\ content_div \in SeqsUpTo(FooterParas, MaxParas)
  /\ paragraphs = <<>>
  /\ footer_elements = {}
  /\ dirname = <<>>
  /\ date = <<>>
  /\ listing = <<>>
  /\ all_dirs = <<>>
  /\ i = 0
  /\ spine = <<>>
  /\ toc = <<>>
  /\ chapters = <<>>
  /\ items = <<>>
  /\ book_spine = <<>>
  /\ book_toc = <<>>
  /\ image_files_to_process = <<>>
  /\ html_content = <<>>
  /\ html = <<>>

RemoveFooterElements ==
  /\ pc = "footer_call"
  /\ paragraphs' = content_div
  /\ footer_elements' = FooterElements(content_div)
  /\ content_div' = _remove_footer_elements(content_div)
  /\ pc' = "footer_done"
  /\ UNCHANGED <<walkVars, dateVars, styleVars>>

NextFooter ==
  RemoveFooterElements

SpecFooter ==
  InitFooter /\ [][NextFooter]_vars

\* C5: one call removes a contiguous run at the very end of the paragraph
\* list, at most 5 long, and nothing at or before the last paragraph that
\* matches no footer heuristic, even where an earlier paragraph matches.
C5_TrailingRunAtMostFive ==
  pc = "footer_done" =>
    LET n == Len(paragraphs)
        r == Cardinality(footer_elements)
    IN  /\ r <= 5
        /\ footer_elements = (n - r + 1)..n
        /\ \A j \in 1..n :
             ~is_footer(paragraphs[j]) => \A k \in 1..j : k \notin footer_elements
        /\ content_div = SubSeq(paragraphs, 1, n - r)

\* six or more paragraphs, five removed, and a matching paragraph kept: one
\* behind a non-matching one or the sixth from the end
C5_Witness ==
  /\ pc = "footer_done"
  /\ Len(paragraphs) >= 6
  /\ Cardinality(footer_elements) = 5
  /\ is_footer(paragraphs[Len(paragraphs) - 5])
  /\ Len(content_div) = Len(paragraphs) - 5

(***************************************************************************)
(* _preserve_formatting                                                    *)
(*                                                                         *)
(* Of an element the function reads its tag and its style attribute        *)
(* (has_style: the attribute is present); the other fields are those of a  *)
(* paragraph.  A style string is a sequence of tokens; the token " " is    *)
(* one whitespace character and no token contains ":" or ";" except the    *)
(* tokens ":" and ";" themselves.                                          *)
(***************************************************************************)
Element(t, h, st) ==
  [tag |-> t, has_style |-> h, style |-> st,
   email |-> FALSE, author |-> FALSE, imgs |-> <<>>, fingerprint |-> FALSE, len |-> 40]

\* 'word' in style
Contains(st, word) ==
  \E k \in 1..Len(st) : st[k] = word

\* the tokens from position k up to the next ";" or the end: what [^;]* can take
RECURSIVE NoSemicolonRun(_, _)
NoSemicolonRun(st, k) ==
  IF k > Len(st) \/ st[k] = ";" THEN <<>>
  ELSE <<st[k]>> \o NoSemicolonRun(st, k + 1)

RECURSIVE LeadingSpaces(_)
LeadingSpaces(run) ==
  IF run # <<>> /\ Head(run) = " " THEN 1 + LeadingSpaces(Tail(run)) ELSE 0

\* prop + r':\s*([^;]+)' matches at k
PropertyMatchAt(st, prop, k) ==
  /\ k + 1 <= Len(st)
  /\ st[k] = prop
  /\ st[k + 1] = ":"
  /\ NoSemicolonRun(st, k + 2) # <<>>

\* group(1) of that match: \s* is greedy and gives one character back when the
\* run is whitespace only
PropertyGroupAt(st, k) ==
  LET run == NoSemicolonRun(st, k + 2)
      m == LeadingSpaces(run)
  IN  IF m < Len(run) THEN SubSeq(run, m + 1, Len(run)) ELSE <<run[Len(run)]>>

\* re.search(prop + r':\s*([^;]+)', style): <<>> when there is no match, else
\* <<group(1)>>
PropertySearch(st, prop) ==
  IF \E k \in 1..Len(st) : PropertyMatchAt(st, prop, k)
  THEN LET k == CHOOSE k \in 1..Len(st) :
                  /\ PropertyMatchAt(st, prop, k)
                  /\ \A j \in 1..(k - 1) : ~PropertyMatchAt(st, prop, j)
       IN  <<PropertyGroupAt(st, k)>>
  ELSE <<>>

\* the list new_style built for one paragraph
NewStyle(st) ==
  LET align == IF Contains(st, "text-align") THEN PropertySearch(st, "text-align") ELSE <<>>
      indent == IF Contains(st, "text-indent") THEN PropertySearch(st, "text-indent") ELSE <<>>
  IN  (IF align # <<>> THEN <<<<"text-align", ":", " ">> \o align[1]>> ELSE <<>>)
      \o (IF Contains(st, "font-weight") /\ Contains(st, "bold")
          THEN <<<<"font-weight", ":", " ", "bold">>>> ELSE <<>>)
      \o (IF indent # <<>> THEN <<<<"text-indent", ":", " ">> \o indent[1]>> ELSE <<>>)

\* '; '.join(parts)
RECURSIVE Join(_)
Join(parts) ==
  IF parts = <<>> THEN <<>>
  ELSE IF Len(parts) = 1 THEN parts[1]
  ELSE parts[1] \o <<";", " ">> \o Join(Tail(parts))

\* variant: a paragraph without an essential style keeps its attribute
NormalizeParagraphKeep(e) ==
  LET st == IF e.has_style THEN e.style ELSE <<>>
      new_style == NewStyle(st)
  IN  IF new_style # <<>>
      THEN [e EXCEPT !.has_style = TRUE, !.style = Join(new_style)]
      ELSE e

\* the body of the loop over soup.find_all('p'); p.get('style', '') reads an
\* absent attribute as the empty string
NormalizeParagraph(e) ==
  LET st == IF e.has_style THEN e.style ELSE <<>>
      new_style == NewStyle(st)
  IN  IF new_style # <<>>
      THEN [e EXCEPT !.has_style = TRUE, !.style = Join(new_style)]
      ELSE [e EXCEPT !.has_style = FALSE, !.style = <<>>]

HeadingTags ==
  {"h1", "h2", "h3", "h4", "h5", "h6"}

HeadingStyle ==
  <<"text-align", ":", " ", "center", ";", " ", "font-weight", ":", " ", "bold", ";">>

NormalizeHeading(e) ==
  [e EXCEPT !.has_style = TRUE, !.style = HeadingStyle]

\* both loops of _preserve_formatting; the closing replace of '</p><p' only
\* adds a newline between elements
_preserve_formatting(elems) ==
  [k \in DOMAIN elems |->
     IF elems[k].tag = "p" THEN NormalizeParagraph(elems[k])
     ELSE IF elems[k].tag \in HeadingTags THEN NormalizeHeading(elems[k])
     ELSE elems[k]]

StyleChunks ==
  { <<"color", ":", "red">>, <<"text-align", ":">>, <<"text-indent", ":">>,
    <<"font-weight", ":">>, <<"text-align", "-last", ":">>, <<"center">>,
    <<"bold">>, <<";">>, <<" ">> }

Styles ==
  {Flatten(cs) : cs \in SeqsUpTo(StyleChunks, MaxStyleChunks)}

DocumentTags ==
  <<"p", "h1", "h2", "h3", "h4", "h5", "h6", "div">>

InitStyle ==
  /\ pc = "style_call"
  /\ \E st \in Styles, h \in BOOLEAN :
       /\ (~h => st = <<>>)
       /\ html_content = [k \in DOMAIN DocumentTags |-> Element(DocumentTags[k], h, st)]
  /\ html = <<>>
  /\ content_div = <<>>
  /\ paragraphs = <<>>
  /\ footer_elements = {}
  /\ dirname = <<>>
  /\ date = <<>>
  /\ listing = <<>>
  /\ all_dirs = <<>>
  /\ i = 0
  /\ spine = <<>>
  /\ toc = <<>>
  /\ chapters = <<>>
  /\ items = <<>>
  /\ book_spine = <<>>
  /\ book_toc = <<>>
  /\ image_files_to_process = <<>>

PreserveFormatting ==
  /\ pc = "style_call"
  /\ html' = _preserve_formatting(html_content)
  /\ pc' = "style_done"
  /\ UNCHANGED <<html_content, walkVars, dateVars, footerVars>>

NextStyle ==
  PreserveFormatting

SpecStyle ==
  InitStyle /\ [][NextStyle]_vars

\* reading a style string back as CSS: the declarations between ";", each
\* without the whitespace around it, the empty ones dropped
RECURSIVE SplitOnSemicolon(_)
SplitOnSemicolon(st) ==
  IF st = <<>> THEN {}
  ELSE LET run == NoSemicolonRun(st, 1)
           rest == IF Len(run) < Len(st) THEN SubSeq(st, Len(run) + 2, Len(st)) ELSE <<>>
       IN  {run} \cup SplitOnSemicolon(rest)

RECURSIVE Strip(_)
Strip(run) ==
  IF run # <<>> /\ Head(run) = " " THEN Strip(Tail(run))
  ELSE IF run # <<>> /\ run[Len(run)] = " " THEN Strip(SubSeq(run, 1, Len(run) - 1))
  ELSE run

Declarations(st) ==
  {Strip(d) : d \in SplitOnSemicolon(st)} \ {<<>>}

\* the property name of a declaration: what stands before its first ":"
RECURSIVE PropertyName(_)
PropertyName(d) ==
  IF d = <<>> \/ Head(d) = ":" THEN <<>> ELSE <<Head(d)>> \o PropertyName(Tail(d))

AllowedProperties ==
  {<<"text-align">>, <<"text-indent">>, <<"font-weight">>}

\* C6: in the output every paragraph's style holds only text-align,
\* text-indent and font-weight declarations, the attribute is absent when no
\* declaration is produced, and every heading h1..h6 carries exactly
\* 'text-align: center; font-weight: bold;'.
C6_StyleAllowlist ==
  pc = "style_done" =>
    \A k \in DOMAIN html :
      /\ html[k].tag = "p" =>
           IF html[k].has_style
           THEN /\ Declarations(html[k].style) # {}
                /\ \A d \in Declarations(html[k].style) :
                     Strip(PropertyName(d)) \in AllowedProperties
           ELSE html[k].style = <<>>
      /\ html[k].tag \in {"h1", "h2", "h3", "h4", "h5", "h6"} =>
           /\ html[k].has_style
           /\ html[k].style = <<"text-align", ":", " ", "center", ";", " ",
                                "font-weight", ":", " ", "bold", ";">>

\* a paragraph and headings that came with a colour and an alignment: the
\* colour is gone from the paragraph, the alignment is kept
C6_Witness ==
  /\ pc = "style_done"
  /\ html_content[1].style = <<"color", ":", "red", ";", "text-align", ":", "center">>
  /\ html_content[7].style = html_content[1].style
  /\ html[1].tag = "p"
  /\ html[1].style = <<"text-align", ":", " ", "center">>
  /\ html[7].tag = "h6"

(***************************************************************************)
(* Image references                                                        *)
(*                                                                         *)
(* The src of an img is one of                                             *)
(*   asset   ./assets/<sub>/<stem>.<ext>   (sub may be empty)              *)
(*   bare    <stem>.<ext>                                                  *)
(*   images  images/<stem>.<ext>                                           *)
(*   remote  an absolute URL ending in <stem>.<ext>                        *)
(***************************************************************************)
Src(k, sub, stem, ext) ==
  [kind |-> k, sub |-> sub, stem |-> stem, ext |-> ext]

\* src.startswith('./assets/')
IsAsset(src) ==
  src.kind = "asset"

\* os.path.basename(src)
Basename(src) ==
  Src("bare", "", src.stem, src.ext)

\* 'images/' + img_name
ImagesPath(src) ==
  Src("images", "", src.stem, src.ext)

\* str.lower() on the extensions in use
Lower(ext) ==
  CASE ext = "PNG" -> "png"
    [] OTHER -> ext

\* the media type chosen from os.path.splitext(full_img_path)[1].lower()
MediaType(src) ==
  LET img_ext == Lower(src.ext)
  IN  IF img_ext = "jpg" \/ img_ext = "jpeg" THEN "image/jpeg"
      ELSE IF img_ext = "png" THEN "image/png"
      ELSE IF img_ext = "gif" THEN "image/gif"
      ELSE IF img_ext = "svg" THEN "image/svg+xml"
      ELSE "image/jpeg"

(***************************************************************************)
(* clean_html_content                                                      *)
(*                                                                         *)
(* A document is its h1 text (<<>> when it has none), which container it   *)
(* has ("js_content", "rich_media_content" or "none") and the paragraphs   *)
(* of that container.                                                      *)
(***************************************************************************)
ContentNotFound ==
  <<Para(FALSE, FALSE, <<>>, FALSE, 17)>>

\* the body before the img loop: the copy of the container after the footer
\* stripper and the style normalizer
CleanedParas(doc) ==
  _preserve_formatting(_remove_footer_elements(doc.paras))

RECURSIVE AssetSrcs(_)
AssetSrcs(srcs) ==
  IF srcs = <<>> THEN <<>>
  ELSE (IF IsAsset(Head(srcs)) THEN <<Head(srcs)>> ELSE <<>>) \o AssetSrcs(Tail(srcs))

\* the './assets/' src values of the img elements of a body, in document order
RECURSIVE PendingOf(_)
PendingOf(body) ==
  IF body = <<>> THEN <<>>
  ELSE AssetSrcs(Head(body).imgs) \o PendingOf(Tail(body))

RewriteSrc(src) ==
  IF IsAsset(src) THEN Basename(src) ELSE src

\* the img loop's effect on the body
RewriteBody(body) ==
  [k \in DOMAIN body |->
     [body[k] EXCEPT !.imgs = [j \in DOMAIN body[k].imgs |-> RewriteSrc(body[k].imgs[j])]]]

\* returns the title, the body and self.image_files_to_process, given the
\* list at the time of the call
clean_html_content(doc, pending) ==
  IF doc.container = "none"
  THEN [title |-> doc.h1, body |-> ContentNotFound, pending |-> pending]
  ELSE LET cleaned == CleanedParas(doc)
       IN  [title |-> doc.h1,
            body |-> RewriteBody(cleaned),
            pending |-> pending \o PendingOf(cleaned)]

(***************************************************************************)
(* process_directory                                                       *)
(***************************************************************************)
\* item.startswith('.')
IsHidden(name) ==
  name # <<>> /\ name[1] = "."

Retained(entry) ==
  entry.isdir /\ ~IsHidden(entry.name) /\ entry.has_index

RECURSIVE Filter(_)
Filter(es) ==
  IF es = <<>> THEN <<>>
  ELSE (IF Retained(Head(es)) THEN <<Head(es)>> ELSE <<>>) \o Filter(Tail(es))

SortKey(entry) ==
  extract_date_from_dirname(entry.name)

\* variant: an element goes before the elements with an equal key
RECURSIVE InsertSortedUnstable(_, _)
InsertSortedUnstable(sorted, e) ==
  IF sorted = <<>> THEN <<e>>
  ELSE LET last == sorted[Len(sorted)]
       IN  IF ~DateLess(SortKey(last), SortKey(e))
           THEN Append(InsertSortedUnstable(SubSeq(sorted, 1, Len(sorted) - 1), e), last)
           ELSE Append(sorted, e)

\* list.sort(key=...) is stable: an element goes behind every element whose
\* key is not greater
RECURSIVE InsertSorted(_, _)
InsertSorted(sorted, e) ==
  IF sorted = <<>> THEN <<e>>
  ELSE LET last == sorted[Len(sorted)]
       IN  IF DateLess(SortKey(e), SortKey(last))
           THEN Append(InsertSorted(SubSeq(sorted, 1, Len(sorted) - 1), e), last)
           ELSE Append(sorted, e)

\* variant: the list is left in listing order
NoSort(es) ==
  es

RECURSIVE SortByDate(_)
SortByDate(es) ==
  IF es = <<>> THEN <<>>
  ELSE InsertSorted(SortByDate(SubSeq(es, 1, Len(es) - 1)), es[Len(es)])

process_directory(ls) ==
  SortByDate(Filter(ls))

(***************************************************************************)
(* process_html_file                                                       *)
(***************************************************************************)
\* date_match.group(1) if date_match else ""
DateStr(name) ==
  LET k == DateSearch(name)
  IN  IF k # 0 THEN SubSeq(name, k, k + 9) ELSE <<>>

\* variant: the list of the previous article is kept
KeepPending(previous) ==
  previous

\* line 282: the list is emptied before the article is read
ResetPending(previous) ==
  <<>>

ImageItem(chapter_id, img_path, entry) ==
  [kind |-> "image",
   uid |-> <<"image", chapter_id, img_path.stem, img_path.ext>>,
   file_name |-> ImagesPath(img_path),
   media_type |-> MediaType(img_path),
   content |-> entry.files[img_path],
   \* history, not a field of EpubItem: the file the content was read from
   read_from |-> [dir |-> entry.name, path |-> img_path]]

\* chapter.content.replace('src="<name>"', 'src="images/<name>"')
ReplaceSrc(body, img_path) ==
  [k \in DOMAIN body |->
     [body[k] EXCEPT !.imgs =
        [j \in DOMAIN body[k].imgs |->
           IF body[k].imgs[j] = Basename(img_path)
           THEN ImagesPath(img_path) ELSE body[k].imgs[j]]]]

\* the loop over self.image_files_to_process; st holds the book's items and
\* the chapter's body
RECURSIVE EmbedImages(_, _, _, _)
EmbedImages(pending, chapter_id, entry, st) ==
  IF pending = <<>> THEN st
  ELSE LET img_path == Head(pending)
           next == IF img_path \in DOMAIN entry.files
                   THEN [items |-> Append(st.items, ImageItem(chapter_id, img_path, entry)),
                         body |-> ReplaceSrc(st.body, img_path)]
                   ELSE st
       IN  EmbedImages(Tail(pending), chapter_id, entry, next)

\* the chapter, the book's items and the pending list after the call
process_html_file(entry, chapter_id, bookItems, previous) ==
  LET cleaned == clean_html_content(entry.doc, ResetPending(previous))
      title == IF cleaned.title = <<>> THEN entry.name ELSE cleaned.title
      st == IF entry.has_assets
            THEN EmbedImages(cleaned.pending, chapter_id, entry,
                             [items |-> bookItems, body |-> cleaned.body])
            ELSE [items |-> bookItems, body |-> cleaned.body]
  IN  [chapter |-> [kind |-> "chapter",
                    file_name |-> <<"chapter", chapter_id>>,
                    title |-> title,
                    date_str |-> DateStr(entry.name),
                    body |-> st.body,
                    \* history: the directory the chapter was built from
                    dir |-> entry.name],
       items |-> st.items,
       pending |-> cleaned.pending]

(***************************************************************************)
(* The source tree                                                         *)
(***************************************************************************)
ImgAX ==
  Src("asset", "a", "x", "png")

ImgBX ==
  Src("asset", "b", "x", "png")

ImgW ==
  Src("asset", "", "w", "webp")

ImgP ==
  Src("asset", "", "p", "PNG")

ImgRemote ==
  Src("remote", "", "r", "gif")

TextPara(im) ==
  Para(FALSE, FALSE, im, FALSE, 40)

StyledPara ==
  [TextPara(<<>>) EXCEPT !.has_style = TRUE,
                         !.style = <<"color", ":", "red", ";", "text-align", ":", "center">>]

Doc(h, c, ps) ==
  [h1 |-> h, container |-> c, paras |-> ps]

NoDoc ==
  Doc(<<>>, "none", <<>>)

\* four paragraphs, the last an image-only footer; x.png under two subfolders
DocA ==
  Doc(<<"A">>, "js_content",
      <<TextPara(<<ImgAX>>), TextPara(<<ImgBX, ImgRemote>>), StyledPara,
        Para(FALSE, FALSE, <<QrSrc>>, FALSE, 0)>>)

\* two paragraphs (no stripping), the same asset twice, no h1
DocB ==
  Doc(<<>>, "rich_media_content",
      <<TextPara(<<ImgAX, ImgW>>), Para(FALSE, FALSE, <<ImgAX>>, FALSE, 0)>>)

\* no content container
DocC ==
  Doc(<<"C">>, "none", <<TextPara(<<ImgAX>>)>>)

\* three paragraphs, the last two footers
DocD ==
  Doc(<<"D">>, "js_content",
      <<TextPara(<<ImgP>>), Para(FALSE, TRUE, <<>>, FALSE, 8),
        Para(TRUE, FALSE, <<ImgAX>>, FALSE, 0)>>)

\* the files under <dir>/assets with their bytes
FilesAll ==
  (ImgAX :> 1) @@ (ImgBX :> 2) @@ (QrSrc :> 3) @@ (ImgW :> 4) @@ (ImgP :> 6)

FilesOne ==
  (ImgAX :> 5)

NoFiles ==
  [x \in {} |-> 0]

Article(d, a, fs) ==
  [doc |-> d, has_assets |-> a, files |-> fs]

Articles ==
  { Article(DocA, TRUE, FilesAll), Article(DocA, TRUE, FilesOne),
    Article(DocB, TRUE, FilesAll), Article(DocB, FALSE, NoFiles),
    Article(DocC, TRUE, FilesAll), Article(DocD, TRUE, FilesAll) }

ArticleNames ==
  { T_2024_03_01 \o <<"-", "a">>,
    <<"n", "o", "-", "d", "a", "t", "e">>,
    T_1999_12_31,
    T_2024_13_01 \o <<"-">> \o T_2024_03_01,
    <<".">> \o T_2024_03_01 }

Entry(n, d, ix, art) ==
  [name |-> n, isdir |-> d, has_index |-> ix,
   doc |-> art.doc, has_assets |-> art.has_assets, files |-> art.files]

Entries ==
  {Entry(n, TRUE, TRUE, art) : n \in ArticleNames, art \in Articles}
    \cup {Entry(n, TRUE, FALSE, Article(NoDoc, FALSE, NoFiles)) : n \in ArticleNames}
    \cup {Entry(n, FALSE, FALSE, Article(NoDoc, FALSE, NoFiles)) : n \in ArticleNames}

\* os.listdir: any order, no name twice
Listings ==
  {ls \in SeqsUpTo(Entries, MaxDirs) :
     \A a, b \in DOMAIN ls : a # b => ls[a].name # ls[b].name}

(***************************************************************************)
(* create_epub                                                             *)
(***************************************************************************)
Nav ==
  [kind |-> "nav"]

Css ==
  [kind |-> "css", uid |-> <<"style_default">>]

Cover(n) ==
  [kind |-> "cover", file_name |-> <<"cover">>, articles |-> n]

TocPage(cs) ==
  [kind |-> "toc", file_name |-> <<"toc">>,
   entries |-> [k \in DOMAIN cs |->
                  [href |-> cs[k].file_name, date_str |-> cs[k].date_str,
                   title |-> cs[k].title]]]

Link(href, title, uid) ==
  [kind |-> "link", href |-> href, title |-> title, uid |-> uid]

\* list.insert(1, x)
Insert1(seq, x) ==
  IF seq = <<>> THEN <<x>> ELSE <<Head(seq), x>> \o Tail(seq)

\* the state __init__ leaves
Init ==
  /\ pc = "start"
  /\ listing \in Listings
  /\ all_dirs = <<>>
  /\ i = 0
  /\ spine = <<Nav>>
  /\ toc = <<>>
  /\ chapters = <<>>
  /\ items = <<Css>>
  /\ book_spine = <<>>
  /\ book_toc = <<>>
  /\ image_files_to_process = <<>>
  /\ dirname = <<>>
  /\ date = <<>>
  /\ content_div = <<>>
  /\ paragraphs = <<>>
  /\ footer_elements = {}
  /\ html_content = <<>>
  /\ html = <<>>

ProcessDirectory ==
  /\ pc = "start"
  /\ all_dirs' = process_directory(listing)
  /\ pc' = "cover"
  /\ UNCHANGED <<listing, i, spine, toc, chapters, items, book_spine, book_toc,
                 image_files_to_process, dateVars, footerVars, styleVars>>

CreateCover ==
  /\ pc = "cover"
  /\ items' = Append(items, Cover(Len(all_dirs)))
  /\ spine' = Append(spine, Cover(Len(all_dirs)))
  /\ pc' = "articles"
  /\ UNCHANGED <<listing, all_dirs, i, toc, chapters, book_spine, book_toc,
                 image_files_to_process, dateVars, footerVars, styleVars>>

\* one iteration of the loop over enumerate(all_dirs)
ProcessHtmlFile ==
  /\ pc = "articles"
  /\ i < Len(all_dirs)
  /\ LET dir_info == all_dirs[i + 1]
     IN  IF ~dir_info.has_index
         THEN UNCHANGED <<spine, toc, chapters, items, image_files_to_process>>
         ELSE LET result == process_html_file(dir_info, i + 1, items, image_files_to_process)
              IN  /\ items' = Append(result.items, result.chapter)
                  /\ chapters' = Append(chapters, result.chapter)
                  /\ spine' = Append(spine, result.chapter)
                  /\ toc' = Append(toc, Link(result.chapter.file_name, result.chapter.title,
                                             <<"chapter", i + 1>>))
                  /\ image_files_to_process' = result.pending
  /\ i' = i + 1
  /\ UNCHANGED <<pc, listing, all_dirs, book_spine, book_toc,
                 dateVars, footerVars, styleVars>>

Finish ==
  /\ pc = "articles"
  /\ i = Len(all_dirs)
  /\ spine' = Insert1(spine, TocPage(chapters))
  /\ toc' = <<Link(<<"toc">>, <<"T", "O", "C">>, <<"toc">>)>> \o toc
  /\ book_spine' = spine'
  /\ book_toc' = toc'
  /\ items' = items \o <<TocPage(chapters), [kind |-> "ncx"], [kind |-> "nav"]>>
  /\ pc' = "done"
  /\ UNCHANGED <<listing, all_dirs, i, chapters, image_files_to_process,
                 dateVars, footerVars, styleVars>>

Next ==
  \/ ProcessDirectory
  \/ CreateCover
  \/ ProcessHtmlFile
  \/ Finish

Spec ==
  Init /\ [][Next]_vars

(***************************************************************************)
(* Properties of create_epub                                               *)
(***************************************************************************)
\* C1: the spine handed to the packaging library is the cover, the TOC page
\* and then the chapters in processing order, with nothing before or between.
C1_SpineCoverTocChapters ==
  pc = "done" =>
    book_spine = <<Cover(Len(all_dirs)), TocPage(chapters)>> \o chapters

\* position of a directory name in the listing
ListingPos(name) ==
  CHOOSE k \in DOMAIN listing : listing[k].name = name

\* C3: process_directory returns the retained directories with non-decreasing
\* extracted dates, equal dates in listing order, and chapter k is built from
\* the k-th of them.
C3_StableDateOrder ==
  pc # "start" =>
    LET n == Len(all_dirs)
        kept == {k \in DOMAIN listing :
                   listing[k].isdir /\ listing[k].has_index /\ listing[k].name[1] # "."}
    IN  /\ n = Cardinality(kept)
        /\ {all_dirs[k] : k \in 1..n} = {listing[k] : k \in kept}
        /\ \A a, b \in 1..n :
             a < b =>
               LET da == extract_date_from_dirname(all_dirs[a].name)
                   db == extract_date_from_dirname(all_dirs[b].name)
               IN  /\ ~DateLess(db, da)
                   /\ da = db => ListingPos(all_dirs[a].name) < ListingPos(all_dirs[b].name)
        /\ Len(chapters) = i
        /\ \A k \in 1..Len(chapters) :
             /\ chapters[k].file_name = <<"chapter", k>>
             /\ chapters[k].dir = all_dirs[k].name

\* two directories with the same (fallback) date, both turned into chapters
C3_Witness ==
  /\ pc = "done"
  /\ Len(all_dirs) = 2
  /\ extract_date_from_dirname(all_dirs[1].name) = extract_date_from_dirname(all_dirs[2].name)
  /\ Len(chapters) = 2

\* the name yields no date: no substring has the form, or the leftmost does
\* not parse
NoParseableDate(name) ==
  DateSearch(name) = 0 \/ ~StrptimeOk(name, DateSearch(name))

\* C4 (as stated): a directory without a parseable date comes before every
\* directory with a valid date.
C4_FallbackSortsFirst ==
  pc # "start" =>
    \A a, b \in DOMAIN all_dirs :
      (NoParseableDate(all_dirs[a].name) /\ ~NoParseableDate(all_dirs[b].name)) => a < b

\* C4 (amended): a directory without a parseable date comes before every
\* directory dated after 2000-01-01 and behind every directory dated before
\* 2000-01-01.
C4_FallbackSortsAsYear2000 ==
  pc # "start" =>
    \A a, b \in DOMAIN all_dirs :
      (NoParseableDate(all_dirs[a].name) /\ ~NoParseableDate(all_dirs[b].name)) =>
        LET d == Strptime(all_dirs[b].name, DateSearch(all_dirs[b].name))
        IN  /\ (d[1] > 2000 \/ (d[1] = 2000 /\ (d[2] > 1 \/ d[3] > 1))) => a < b
            /\ d[1] < 2000 => b < a

\* a dated directory listed first and sorted behind an undated one
C4_Witness ==
  /\ pc = "done"
  /\ Len(all_dirs) = 2
  /\ NoParseableDate(all_dirs[1].name)
  /\ ~NoParseableDate(all_dirs[2].name)
  /\ listing[1].name = all_dirs[2].name

\* the media type the extension stands for
MediaTypeOfExtension(ext) ==
  CASE ext \in {"jpg", "jpeg", "JPG", "JPEG"} -> "image/jpeg"
    [] ext \in {"png", "PNG"} -> "image/png"
    [] ext \in {"gif", "GIF"} -> "image/gif"
    [] ext \in {"svg", "SVG"} -> "image/svg+xml"
    [] OTHER -> "image/jpeg"

IsImage(item) ==
  item.kind = "image"

\* C7: an './assets/' img of the cleaned body whose file exists ends as
\* images/<name> with a resource of the extension's media type and the file's
\* bytes; one whose file is missing stays <name> and nothing is embedded.
C7_ImageRoundTrip ==
  \A k \in DOMAIN chapters :
    LET entry == all_dirs[k]
        cleaned == IF entry.doc.container = "none" THEN <<>> ELSE CleanedParas(entry.doc)
    IN  \A p \in DOMAIN cleaned :
          \A j \in DOMAIN cleaned[p].imgs :
            LET src == cleaned[p].imgs[j]
                name == [kind |-> "bare", sub |-> "", stem |-> src.stem, ext |-> src.ext]
                out == [kind |-> "images", sub |-> "", stem |-> src.stem, ext |-> src.ext]
            IN  src.kind = "asset" =>
                  IF src \in DOMAIN entry.files
                  THEN /\ chapters[k].body[p].imgs[j] = out
                       /\ \E m \in DOMAIN items :
                            /\ IsImage(items[m])
                            /\ items[m].file_name = out
                            /\ items[m].media_type = MediaTypeOfExtension(src.ext)
                            /\ items[m].content = entry.files[src]
                  ELSE /\ chapters[k].body[p].imgs[j] = name
                       /\ ~\E m \in DOMAIN items :
                             /\ IsImage(items[m])
                             /\ items[m].read_from = [dir |-> entry.name, path |-> src]

\* C8: no two registered image resources share an identifier.
C8_UniqueImageIds ==
  \A m, n \in DOMAIN items :
    (m # n /\ IsImage(items[m]) /\ IsImage(items[n])) => items[m].uid # items[n].uid

\* C9: no two embedded image resources share an output path.
C9_UniqueImagePaths ==
  \A m, n \in DOMAIN items :
    (m # n /\ IsImage(items[m]) /\ IsImage(items[n])) =>
      items[m].file_name # items[n].file_name

\* the './assets/' paths of the img elements left in the cleaned body
RemainingAssetPaths(doc) ==
  IF doc.container = "none" THEN {}
  ELSE LET cleaned == CleanedParas(doc)
       IN  UNION {{cleaned[p].imgs[j] : j \in {x \in DOMAIN cleaned[p].imgs :
                                                 cleaned[p].imgs[x].kind = "asset"}} :
                  p \in DOMAIN cleaned}

\* C10: after article i is processed the pending list holds exactly the
\* './assets/' paths left in its cleaned body (none without a container), and
\* every image embedded for chapter k was read from article k's directory at
\* a path left in article k's cleaned body.
C10_PendingListOwnArticleOnly ==
  pc \in {"articles", "done"} =>
    /\ i >= 1 =>
         /\ {image_files_to_process[k] : k \in DOMAIN image_files_to_process}
              = RemainingAssetPaths(all_dirs[i].doc)
         /\ all_dirs[i].doc.container = "none" => image_files_to_process = <<>>
    /\ \A m \in DOMAIN items :
         IsImage(items[m]) =>
           LET k == items[m].uid[2]
           IN  /\ k \in 1..i
               /\ items[m].read_from.dir = all_dirs[k].name
               /\ items[m].read_from.path \in RemainingAssetPaths(all_dirs[k].doc)

\* a first article whose footer image exists and whose other images were
\* embedded, then an article without a container whose directory holds the
\* same files
C10_Witness ==
  /\ pc = "done"
  /\ Len(all_dirs) = 2
  /\ all_dirs[1].doc.container # "none"
  /\ FooterElements(all_dirs[1].doc.paras) # {}
  /\ \E r \in FooterElements(all_dirs[1].doc.paras) :
       /\ all_dirs[1].doc.paras[r].imgs # <<>>
       /\ all_dirs[1].doc.paras[r].imgs[1] \in DOMAIN all_dirs[1].files
  /\ \E m \in DOMAIN items : IsImage(items[m]) /\ items[m].uid[2] = 1
  /\ all_dirs[2].doc.container = "none"
  /\ all_dirs[2].files = all_dirs[1].files
  /\ image_files_to_process = <<>>

====
